---------------------------- MODULE Spec2Model ----------------------------
(***************************************************************************)
(* LivePhotoServer: the gallery store (one directory per gallery, one JSON *)
(* record file plus two media files per asset) and the HTTP handlers that  *)
(* read and change it: upload, gallery listing, asset listing, get-asset,  *)
(* delete-asset and delete-gallery.                                        *)
(*                                                                         *)
(* Strings on which the code works character by character (asset ids,      *)
(* passwords) are sequences of one-character strings; file names are       *)
(* records [stem, kind, ext] standing for `${stem}_${kind}${ext}`.          *)
(* fs.readdirSync returns entries in an order the platform chooses, so     *)
(* "the first entry that ..." is a choice among all entries that qualify.  *)
(* Record fields the handlers only copy (creationDate, latitude,           *)
(* longitude) are left out.                                                *)
(***************************************************************************)
EXTENDS Integers, Sequences, FiniteSets, TLC

VARIABLES
    dirs,        \* names of the gallery directories under the upload root
    files,       \* <<dir, name>> -> content, for every file in those directories
    uuidCount,   \* how many uuidv4() values have been drawn
    now,         \* the server clock (new Date())
    heicConvert, \* upload.ts module variable: TRUE once heic-convert is imported
    inflight,    \* the upload suspended at an await, or Idle
    started,     \* number of upload requests received
    deleted,     \* galleries deleted successfully and not uploaded to since
    changed,     \* whether the last step changed a directory or a file
    again,       \* whether the last request repeated a successful asset delete
    conversion,  \* how convertHeicToJpeg ended in the last step, if it did
    last         \* the last response sent, with the request that produced it

vars == <<dirs, files, uuidCount, now, heicConvert, inflight, started, deleted,
          changed, again, conversion, last>>

-----------------------------------------------------------------------------
(* Bounds *)

MaxUploads == 2

-----------------------------------------------------------------------------
(* Strings *)

PrefixLen == 8

Lower == <<"a", "b", "c", "d", "e", "f", "g", "h", "i", "j", "k", "l", "m",
           "n", "o", "p", "q", "r", "s", "t", "u", "v", "w", "x", "y", "z">>
Upper == <<"A", "B", "C", "D", "E", "F", "G", "H", "I", "J", "K", "L", "M",
           "N", "O", "P", "Q", "R", "S", "T", "U", "V", "W", "X", "Y", "Z">>

\* String.prototype.toUpperCase on one character
UpperChar(c) ==
    IF \E i \in 1..Len(Lower) : Lower[i] = c
    THEN Upper[CHOOSE i \in 1..Len(Lower) : Lower[i] = c]
    ELSE c

\* String.prototype.toLowerCase on one character
LowerChar(c) ==
    IF \E i \in 1..Len(Upper) : Upper[i] = c
    THEN Lower[CHOOSE i \in 1..Len(Upper) : Upper[i] = c]
    ELSE c

toUpperCase(s) == [i \in 1..Len(s) |-> UpperChar(s[i])]

toLowerCase(s) == [i \in 1..Len(s) |-> LowerChar(s[i])]

\* s.substring(0, n)
substring(s, n) == IF Len(s) <= n THEN s ELSE SubSeq(s, 1, n)

\* s.startsWith(p)
startsWith(s, p) == Len(p) <= Len(s) /\ SubSeq(s, 1, Len(p)) = p

\* s.endsWith(p)
endsWith(s, p) == Len(p) <= Len(s) /\ SubSeq(s, Len(s) - Len(p) + 1, Len(s)) = p

\* JavaScript truthiness of an optional string: undefined and "" are both falsy
Truthy(s) == s # <<>>

\* a || b on optional strings
OrElse(a, b) == IF Truthy(a) THEN a ELSE b

-----------------------------------------------------------------------------
(* File names and records *)

KindChars(kind) ==
    CASE kind = "photo" -> <<"p", "h", "o", "t", "o">>
      [] kind = "video" -> <<"v", "i", "d", "e", "o">>
      [] OTHER -> <<"m", "e", "t", "a", "d", "a", "t", "a">>

\* the characters of the file name `${stem}_${kind}${ext}`
FullName(n) == n.stem \o <<"_">> \o KindChars(n.kind) \o n.ext

DotJpg == <<".", "j", "p", "g">>
DotHeicUpper == <<".", "H", "E", "I", "C">>
DotHeic == <<".", "h", "e", "i", "c">>
DotMov == <<".", "m", "o", "v">>
DotJson == <<".", "j", "s", "o", "n">>
MetadataSuffix == <<"_">> \o KindChars("metadata") \o DotJson

PhotoName(assetId, ext) == [stem |-> assetId, kind |-> "photo", ext |-> ext]
VideoName(assetId, ext) == [stem |-> assetId, kind |-> "video", ext |-> ext]
MetadataName(assetId) == [stem |-> assetId, kind |-> "metadata", ext |-> DotJson]

\* file.endsWith('_metadata.json'); ext is the part of the name from its last
\* dot, so only a name whose ext is .json can end that way
IsMetadataFile(n) == n.ext = DotJson /\ endsWith(FullName(n), MetadataSuffix)

\* name.toLowerCase().endsWith('.heic')
IsHeic(n) == endsWith(toLowerCase(FullName(n)), DotHeic)

\* a replacement that finds the lower-case extension only
ReplaceHeicLowerCase(n) ==
    IF endsWith(FullName(n), DotHeic)
    THEN [n EXCEPT !.ext = SubSeq(n.ext, 1, Len(n.ext) - Len(DotHeic)) \o DotJpg]
    ELSE n

\* name.replace(/\.heic$/i, '.jpg')
ReplaceHeic(n) ==
    IF IsHeic(n)
    THEN [n EXCEPT !.ext = SubSeq(n.ext, 1, Len(n.ext) - Len(DotHeic)) \o DotJpg]
    ELSE n

\* the file entries of directory d
Entries(d) == {p \in DOMAIN files : p[1] = d}

\* the paths of the record files of directory d
MetadataFiles(d) == {p \in DOMAIN files : p[1] = d /\ IsMetadataFile(p[2])}

\* JSON.parse(fs.readFileSync(path)) of every record file of directory d
Records(d) == {files[p] : p \in MetadataFiles(d)}

-----------------------------------------------------------------------------
(* Inputs *)

IdShort == <<"a", "b">>
IdLong1 == <<"a", "b", "c", "d", "e", "f", "g", "h", "i">>
IdLong2 == <<"a", "b", "c", "d", "e", "f", "g", "h", "j">>

HexDigits == <<"0", "1", "2", "3", "4", "5", "6", "7",
               "8", "9", "a", "b", "c", "d", "e", "f">>

\* the n-th value uuidv4() returns: every call returns a value not seen before
uuidv4(n) == <<"0", "0", "0", "0", "0", "0", HexDigits[(n \div 16) + 1], HexDigits[(n % 16) + 1],
               "-", "4", "x">>

DeletePw == <<"P", "q">>
ViewPw == <<"V", "w">>

\* the passwords a caller may send with a delete; <<>> is an absent or empty field
DeletePasswords == {<<>>, <<"p", "Q">>, <<"p", "x">>}

\* the ?p= values a caller may send with a listing; <<>> is an absent or empty one
ViewPasswords == {<<>>, <<"v", "W">>, <<"p", "Q">>}

\* the ?gallery= and :galleryId values; "" is an absent ?gallery=
GalleryParams == {"", "default", "trip"}

\* the listing requests, as <<gallery, p>>
ListRequests == {<<"", <<>>>>} \cup ({"trip"} \X ViewPasswords)

\* the gallery page requests, as <<galleryId, p>>
PageRequests == {"trip"} \X {<<>>, <<"v", "W">>}

\* the gallery delete requests, as <<galleryId, password>>
DeleteGalleryRequests ==
    ({"trip"} \X DeletePasswords) \cup ((GalleryParams \ {""}) \X {<<"p", "Q">>})

\* the :id values of get-asset and delete-asset requests: ids and prefixes a
\* client knows, and the id the last upload response gave it
QueryIds ==
    {IdShort, IdLong1}
    \cup (IF last.op = "upload" /\ last.status = 201 THEN {last.body.id} ELSE {})

\* the asset delete requests, as <<id, password>>
DeletePhotoRequests ==
    ({IdShort} \X DeletePasswords) \cup {<<IdLong1, <<"p", "Q">>>>}

\* a multipart form with both files; "" and <<>> are absent fields
Form(id, galleryId, galleryName, deletePw, viewPw, photoExt) ==
    [id |-> id, gallery_id |-> galleryId, gallery_name |-> galleryName,
     gallery_delete_password |-> deletePw, gallery_view_password |-> viewPw,
     photo |-> TRUE, video |-> TRUE, photoExt |-> photoExt, videoExt |-> DotMov,
     photoType |-> IF photoExt = DotHeicUpper THEN "image/heic" ELSE "image/jpeg",
     videoType |-> "video/quicktime",
     photoSize |-> 5, videoSize |-> 9]

\* the upload requests clients send
UploadForms ==
    {Form(<<>>, "", "", <<>>, <<>>, DotJpg),
     Form(IdLong1, "trip", "Trip", <<>>, <<>>, DotJpg),
     Form(IdLong2, "trip", "Other", DeletePw, ViewPw, DotJpg),
     Form(IdShort, "trip", "Trip", <<>>, <<>>, DotHeicUpper),
     [Form(IdShort, "", "", <<>>, <<>>, DotJpg) EXCEPT !.photo = FALSE],
     [Form(IdShort, "", "", <<>>, <<>>, DotJpg) EXCEPT !.video = FALSE],
     [Form(IdShort, "", "", <<>>, <<>>, DotJpg) EXCEPT !.videoType = "video/webm"],
     [Form(IdShort, "", "", <<>>, <<>>, DotMov) EXCEPT !.photoType = "video/mp4"]}

\* the size of the JPEG that heic-convert produces from a HEIC file of size n
ConvertedSize(n) == n - 2

-----------------------------------------------------------------------------
(* The upload directory found at start-up *)

\* adds or replaces the entries of g in function f
Put(f, g) == [p \in DOMAIN f \cup DOMAIN g |-> IF p \in DOMAIN g THEN g[p] ELSE f[p]]

\* removes the entries at paths ps from function f
Remove(f, ps) == [p \in DOMAIN f \ ps |-> f[p]]

Media(size) == [size |-> size]

\* a record as a deployment that stores the gallery passwords wrote it
StoredRecord(id, ext, date) ==
    [id |-> id,
     photoFile |-> PhotoName(substring(id, PrefixLen), ext),
     videoFile |-> VideoName(substring(id, PrefixLen), DotMov),
     photoSize |-> 5, videoSize |-> 9, uploadDate |-> date,
     galleryId |-> "trip", galleryName |-> "Trip",
     galleryDeletePassword |-> DeletePw, galleryViewPassword |-> ViewPw]

StoredAsset(r) ==
    (<<"trip", r.photoFile>> :> Media(r.photoSize)) @@
    (<<"trip", r.videoFile>> :> Media(r.videoSize)) @@
    (<<"trip", MetadataName(substring(r.id, PrefixLen))>> :> r)

EmptyFiles == [p \in {} |-> 0]

\* the contents the upload root may have when the server starts: nothing, or a
\* password-protected gallery left by earlier runs
StartStores ==
    {[dirs |-> {}, files |-> EmptyFiles],
     [dirs |-> {"trip"}, files |-> StoredAsset(StoredRecord(IdLong1, DotJpg, 1))
                                    @@ StoredAsset(StoredRecord(IdShort, DotJpg, 2))]}

Idle == [pc |-> "idle"]

Init ==
    /\ \E s \in StartStores : dirs = s.dirs /\ files = s.files
    /\ uuidCount = 0
    /\ now = 3
    /\ heicConvert = FALSE
    /\ inflight = Idle
    /\ started = 0
    /\ deleted = {}
    /\ changed = FALSE
    /\ again = "no"
    /\ conversion = "none"
    /\ last = [op |-> "start", status |-> 0]

-----------------------------------------------------------------------------
(* Directory scans shared by the handlers of photos.ts *)

TempDir == ".temp"

\* fs.readdirSync(uploadDir).filter(dir => dir !== '.temp' && isDirectory)
galleryDirs == {d \in dirs : d # TempDir}

\* {...metadata, photoUrl: `/files/${dir}/${photoFile}`, videoUrl: ...}
WithUrls(dir, metadata) ==
    [metadata |-> metadata,
     photoUrl |-> <<"files", dir, metadata.photoFile>>,
     videoUrl |-> <<"files", dir, metadata.videoFile>>]

\* a lookup that also takes a record whose id is the beginning of the string
MatchesEitherWay(metadata, id) ==
    metadata.id = id \/ startsWith(metadata.id, id) \/ startsWith(id, metadata.id)

\* a lookup that finds exact ids only
MatchesExactly(metadata, id) == metadata.id = id

\* metadata.id === id || metadata.id.startsWith(id)
Matches(metadata, id) == metadata.id = id \/ startsWith(metadata.id, id)

\* the record files, in any gallery directory, whose record matches id
MatchingFiles(id) ==
    {p \in UNION {MetadataFiles(d) : d \in galleryDirs} : Matches(files[p], id)}

\* a comparison that leaves the letter case as it is
PasswordDiffersExactly(candidate, stored) == candidate # stored

\* candidate.toUpperCase() !== stored.toUpperCase()
PasswordDiffers(candidate, stored) == toUpperCase(candidate) # toUpperCase(stored)

\* the orders Array.prototype.sort may leave items in when it sorts them by
\* key, largest first (items with equal keys keep the order of the scan)
RECURSIVE SortedDesc(_)
SortedDesc(items) ==
    IF items = {} THEN {<<>>}
    ELSE UNION {{<<x>> \o rest : rest \in SortedDesc(items \ {x})}
                  : x \in {y \in items : \A z \in items : z.key <= y.key}}

Response(op, status, req, body) == [op |-> op, status |-> status, req |-> req, body |-> body]

\* records whether the step changed the directories or the files
Changes ==
    /\ changed' = (dirs' # dirs \/ files' # files)
    /\ again' = "no"

\* the same, for a step in which convertHeicToJpeg does not end
Track ==
    /\ Changes
    /\ conversion' = "none"

-----------------------------------------------------------------------------
(* GET /api/photos/galleries *)

\* a loop whose comparison is reversed: nothing is earlier than new Date(0)
LastUpdatedReversed(d) ==
    LET dates == {r.uploadDate : r \in Records(d)} \cup {0}
    IN  CHOOSE m \in dates : \A x \in dates : m <= x

\* lastUpdated: the latest uploadDate, starting from new Date(0)
LastUpdated(d) ==
    LET dates == {r.uploadDate : r \in Records(d)} \cup {0}
    IN  CHOOSE m \in dates : \A x \in dates : x <= m

\* the entries the loop may push for directory d
GalleryInfos(d) ==
    LET metadataFiles == MetadataFiles(d)
        photoCount == Cardinality(metadataFiles)
        lastUpdated == LastUpdated(d)
    IN  IF metadataFiles = {}
        THEN {[id |-> d, name |-> d, photoCount |-> 0, lastUpdated |-> 0]}
        ELSE {[id |-> d,
               name |-> IF files[first].galleryName = "" THEN d ELSE files[first].galleryName,
               photoCount |-> photoCount,
               lastUpdated |-> lastUpdated] : first \in metadataFiles}

\* the possible bodies of the response: one entry per gallery directory
GalleryListings ==
    LET infos == [d \in galleryDirs |-> GalleryInfos(d)]
        choices == {f \in [galleryDirs -> UNION {infos[d] : d \in galleryDirs}] :
                        \A d \in galleryDirs : f[d] \in infos[d]}
        Sorted(f) == SortedDesc({[key |-> f[d].lastUpdated, val |-> f[d]] : d \in galleryDirs})
    IN  UNION {{[i \in 1..Len(sq) |-> sq[i].val] : sq \in Sorted(f)} : f \in choices}

ListGalleries ==
    /\ \E galleries \in GalleryListings :
          last' = Response("galleries", 200, <<>>,
                           [galleries |-> galleries, count |-> Len(galleries)])
    /\ UNCHANGED <<dirs, files, uuidCount, now, heicConvert, inflight, started, deleted>>
    /\ Track

-----------------------------------------------------------------------------
(* GET /api/photos?gallery=ID&p=PASSWORD *)

\* a listing that ignores the gallery filter
SelectedDirsUnfiltered(galleryId) == galleryDirs

\* the gallery directories the request selects
SelectedDirs(galleryId) ==
    IF galleryId # "" THEN {d \in galleryDirs : d = galleryId} ELSE galleryDirs

\* the outcomes of the view password check: 200 stands for "passed"
ViewCheck(galleryId, providedPassword) ==
    IF galleryId = "" \/ SelectedDirs(galleryId) = {} \/ MetadataFiles(galleryId) = {}
    THEN {200}
    ELSE {IF ~Truthy(files[first].galleryViewPassword) THEN 200
          ELSE IF ~Truthy(providedPassword) THEN 401
          ELSE IF PasswordDiffers(providedPassword, files[first].galleryViewPassword) THEN 403
          ELSE 200 : first \in MetadataFiles(galleryId)}

\* the photos collected from the selected directories, in every order the
\* sort by uploadDate may leave them in
PhotoListings(galleryId) ==
    LET found == {[key |-> files[p].uploadDate, val |-> WithUrls(p[1], files[p])]
                    : p \in UNION {MetadataFiles(d) : d \in SelectedDirs(galleryId)}}
    IN  {[i \in 1..Len(sq) |-> sq[i].val] : sq \in SortedDesc(found)}

\* the possible responses, as <<status, photos>>
ListPhotosResponses(galleryId, providedPassword) ==
    LET checked == ViewCheck(galleryId, providedPassword)
    IN  {<<st, <<>>>> : st \in checked \ {200}}
        \cup (IF 200 \in checked
              THEN {<<200, photos>> : photos \in PhotoListings(galleryId)}
              ELSE {})

ListPhotos(galleryId, providedPassword) ==
    /\ \E r \in ListPhotosResponses(galleryId, providedPassword) :
          last' = Response("photos", r[1], [gallery |-> galleryId, p |-> providedPassword],
                           [photos |-> r[2], count |-> Len(r[2])])
    /\ UNCHANGED <<dirs, files, uuidCount, now, heicConvert, inflight, started, deleted>>
    /\ Track

-----------------------------------------------------------------------------
(* GET /api/photos/:id *)

\* the possible responses, as <<status, body>>: the first matching record of
\* the scan, or 404
GetPhotoResponses(id) ==
    LET matching == MatchingFiles(id)
    IN  IF matching = {}
        THEN {<<404, <<>>>>}
        ELSE {<<200, WithUrls(p[1], files[p])>> : p \in matching}

GetPhoto(id) ==
    /\ \E r \in GetPhotoResponses(id) :
          last' = Response("photo", r[1], [id |-> id], r[2])
    /\ UNCHANGED <<dirs, files, uuidCount, now, heicConvert, inflight, started, deleted>>
    /\ Track

-----------------------------------------------------------------------------
(* DELETE /api/photos/:id  with body {password} *)

\* a delete that stops after the photo
AssetFilesPhotoOnly(p) == {<<p[1], files[p].photoFile>>} \cap DOMAIN files

\* a delete that unlinks every file named after the record file's prefix
AssetFilesByPrefix(p) == {q \in Entries(p[1]) : q[2].stem = p[2].stem}

\* a delete that unlinks the media files and leaves the record file
AssetFilesWithoutRecord(p) ==
    {<<p[1], files[p].photoFile>>, <<p[1], files[p].videoFile>>} \cap DOMAIN files

\* the files the handler unlinks for the record file at path p: the photo and
\* the video the record names, where they exist, and the record file
AssetFiles(p) ==
    ({<<p[1], files[p].photoFile>>, <<p[1], files[p].videoFile>>} \cap DOMAIN files) \cup {p}

\* a handler that does not compare the password sent with the stored one
DeletePhotoStatusUncompared(p, password) ==
    IF ~Truthy(files[p].galleryDeletePassword) THEN 403 ELSE 200

\* a handler that deletes without a password check when none is configured
DeletePhotoStatusOpen(p, password) ==
    IF ~Truthy(files[p].galleryDeletePassword) THEN 200
    ELSE IF PasswordDiffers(password, files[p].galleryDeletePassword) THEN 403
    ELSE 200

\* the status the handler answers with once the scan has matched the record
\* file at path p
DeletePhotoStatus(p, password) ==
    IF ~Truthy(files[p].galleryDeletePassword) THEN 403
    ELSE IF PasswordDiffers(password, files[p].galleryDeletePassword) THEN 403
    ELSE 200

\* whether this request repeats the request before it, an asset delete that
\* succeeded, and whether a record other than the deleted one matches the id
Repeats(id, password) ==
    IF last.op = "deletePhoto" /\ last.status = 200
        /\ last.req = [id |-> id, password |-> password]
    THEN IF MatchingFiles(id) \ {last.body.path} = {} THEN "alone" ELSE "others"
    ELSE "no"

DeletePhoto(id, password) ==
    /\ IF ~Truthy(password)
       THEN /\ last' = Response("deletePhoto", 400, [id |-> id, password |-> password], <<>>)
            /\ UNCHANGED files
       ELSE LET matching == MatchingFiles(id) IN
            IF matching = {}
            THEN /\ last' = Response("deletePhoto", 404, [id |-> id, password |-> password], <<>>)
                 /\ UNCHANGED files
            ELSE \E p \in matching :
                 LET status == DeletePhotoStatus(p, password) IN
                 /\ last' = Response("deletePhoto", status,
                                     [id |-> id, password |-> password],
                                     [path |-> p, metadata |-> files[p]])
                 /\ files' = IF status = 200 THEN Remove(files, AssetFiles(p)) ELSE files
    /\ UNCHANGED <<dirs, uuidCount, now, heicConvert, inflight, started, deleted>>
    /\ changed' = (files' # files)
    /\ again' = Repeats(id, password)
    /\ conversion' = "none"

-----------------------------------------------------------------------------
(* GET /gallery/:galleryId?p=PASSWORD, the HTML page of one gallery *)

\* The loop over the record files keeps the galleryName of the last record
\* that has one and the galleryViewPassword of the last record that has one:
\* named and guarded are those two records, or <<>> when no record has the
\* field. Some order of the scan ends with both unless the two are different
\* records that each have both fields.
PageScans(galleryId) ==
    LET metadataFiles == IF galleryId \in dirs THEN MetadataFiles(galleryId) ELSE {}
        withName == {p \in metadataFiles : files[p].galleryName # ""}
        withPassword == {p \in metadataFiles : Truthy(files[p].galleryViewPassword)}
        OrNone(ps) == IF ps = {} THEN {<<>>} ELSE ps
    IN  {sc \in [named : OrNone(withName), guarded : OrNone(withPassword)] :
            ~(/\ sc.named # sc.guarded
              /\ {sc.named, sc.guarded} \subseteq withName \cap withPassword)}

\* the pages the handler may send: the password page, or the gallery page
\* with the photos sorted by uploadDate, newest first
GalleryPageResponses(galleryId, providedPassword) ==
    UNION {
      LET galleryName == IF sc.named = <<>> THEN galleryId ELSE files[sc.named].galleryName
          galleryViewPassword ==
              IF sc.guarded = <<>> THEN <<>> ELSE files[sc.guarded].galleryViewPassword
          Sent(page, message, photos) ==
              [page |-> page, message |-> message, galleryName |-> galleryName,
               photos |-> photos]
      IN  IF Truthy(galleryViewPassword) /\ ~Truthy(providedPassword)
          THEN {Sent("password", "required", <<>>)}
          ELSE IF Truthy(galleryViewPassword)
                  /\ PasswordDiffers(providedPassword, galleryViewPassword)
          THEN {Sent("password", "incorrect", <<>>)}
          ELSE {Sent("gallery", "", photos) :
                  photos \in IF galleryId \in dirs
                             THEN {[i \in 1..Len(sq) |-> sq[i].val] : sq \in SortedDesc(
                                     {[key |-> files[p].uploadDate,
                                       val |-> WithUrls(galleryId, files[p])]
                                        : p \in MetadataFiles(galleryId)})}
                             ELSE {<<>>}}
      : sc \in PageScans(galleryId)}

GalleryPage(galleryId, providedPassword) ==
    /\ \E body \in GalleryPageResponses(galleryId, providedPassword) :
          last' = Response("page", 200, [galleryId |-> galleryId, p |-> providedPassword], body)
    /\ UNCHANGED <<dirs, files, uuidCount, now, heicConvert, inflight, started, deleted>>
    /\ Track

-----------------------------------------------------------------------------
(* DELETE /api/gallery/:galleryId  with body {password} *)

\* the status the handler answers with when the first record file it reads is
\* the one at path first
DeleteGalleryStatus(first, password) ==
    IF ~Truthy(files[first].galleryDeletePassword) THEN 403
    ELSE IF PasswordDiffers(password, files[first].galleryDeletePassword) THEN 403
    ELSE 200

\* a gallery delete that leaves the emptied directory
rmdirSkipped(ds, galleryId) == ds

\* fs.rmdirSync(galleryPath)
rmdirSync(ds, galleryId) == ds \ {galleryId}

\* a loop that unlinks the media files only
GalleryMediaFiles(galleryId) == Entries(galleryId) \ MetadataFiles(galleryId)

\* a loop that unlinks the record files only
GalleryRecordFiles(galleryId) == MetadataFiles(galleryId)

\* files = fs.readdirSync(galleryPath), the entries the loop unlinks
GalleryFiles(galleryId) == Entries(galleryId)

DeleteGallery(galleryId, password) ==
    /\ IF ~Truthy(password)
       THEN /\ last' = Response("deleteGallery", 400,
                                [galleryId |-> galleryId, password |-> password], <<>>)
            /\ UNCHANGED <<dirs, files, deleted>>
       ELSE IF galleryId \notin dirs \/ MetadataFiles(galleryId) = {}
       THEN /\ last' = Response("deleteGallery", 404,
                                [galleryId |-> galleryId, password |-> password], <<>>)
            /\ UNCHANGED <<dirs, files, deleted>>
       ELSE \E first \in MetadataFiles(galleryId) :
            /\ last' = Response("deleteGallery", DeleteGalleryStatus(first, password),
                                [galleryId |-> galleryId, password |-> password],
                                [metadata |-> files[first]])
            /\ IF DeleteGalleryStatus(first, password) = 200
               THEN /\ files' = Remove(files, GalleryFiles(galleryId))
                    /\ dirs' = rmdirSync(dirs, galleryId)
                    /\ deleted' = deleted \cup {galleryId}
               ELSE UNCHANGED <<dirs, files, deleted>>
    /\ UNCHANGED <<uuidCount, now, heicConvert, inflight, started>>
    /\ Track

-----------------------------------------------------------------------------
(* POST /api/upload *)

\* a || b on the plain strings of gallery ids and names
Default(a, b) == IF a = "" THEN b ELSE a

\* multer's filename callback: `${uuidv4()}_${fieldname}${ext}` in .temp
TempFile(n, kind, ext) == <<TempDir, [stem |-> uuidv4(n), kind |-> kind, ext |-> ext]>>

\* the record the handler assembles
UploadMetadata(form, id, galleryId, galleryName, photoFile, photoSize, videoFile, date) ==
    [id |-> id,
     photoFile |-> photoFile, videoFile |-> videoFile,
     photoSize |-> photoSize, videoSize |-> form.videoSize,
     uploadDate |-> date,
     galleryId |-> galleryId, galleryName |-> galleryName,
     galleryDeletePassword |-> <<>>, galleryViewPassword |-> <<>>]

\* an asset id that takes the generated uuid whole
AssetIdWholeUuid(form, n) == OrElse(substring(form.id, PrefixLen), uuidv4(n))

\* (req.body.id)?.substring(0, 8) || uuidv4().substring(0, 8), the n-th uuid
\* being the next one to draw
AssetId(form, n) ==
    OrElse(substring(form.id, PrefixLen), substring(uuidv4(n), PrefixLen))

\* req.body.id || uuidv4()
MetadataId(form, n) == OrElse(form.id, uuidv4(n))

\* The handler from the move of the video to the response, for upload u whose
\* photo ended as photoFile with size photoSize, on directories ds, files fs,
\* with n uuids drawn and the clock at date. fs.renameSync throws when the
\* gallery directory is gone, and the handler then answers 500.
FinishUpload(ds, fs, n, date, u, photoFile, photoSize) ==
    IF u.galleryId \notin ds
    THEN [files |-> fs, uuidCount |-> n, status |-> 500, body |-> <<>>]
    ELSE LET videoFile == VideoName(u.assetId, u.form.videoExt)
             metadataFile == MetadataName(u.assetId)
             metadata == UploadMetadata(u.form, MetadataId(u.form, n), u.galleryId,
                                        u.galleryName, photoFile, photoSize, videoFile, date)
         IN  [files |-> Put(Remove(fs, {u.videoTemp}),
                            (<<u.galleryId, videoFile>> :> Media(u.form.videoSize)) @@
                            (<<u.galleryId, metadataFile>> :> metadata)),
              uuidCount |-> IF Truthy(u.form.id) THEN n ELSE n + 1,
              status |-> 201,
              body |-> [id |-> metadata.id, galleryId |-> u.galleryId,
                        photo |-> <<"files", u.galleryId, photoFile>>,
                        video |-> <<"files", u.galleryId, videoFile>>,
                        metadata |-> <<"files", u.galleryId, metadataFile>>]]

\* the assignments common to every way an upload ends
Respond(u, done) ==
    /\ files' = done.files
    /\ uuidCount' = done.uuidCount
    /\ now' = IF done.status = 201 THEN now + 1 ELSE now
    /\ last' = Response("upload", done.status, u.form, done.body)

\* the content types the fileFilter lets through
allowedMimes ==
    {"image/heic", "image/heif", "image/jpeg", "image/png", "video/quicktime", "video/mp4"}

\* fileFilter: allowedMimes.includes(file.mimetype), for the files the form carries
Accepted(form) ==
    /\ form.photo => form.photoType \in allowedMimes
    /\ form.video => form.videoType \in allowedMimes

\* multer comes to the video after it stored the photo in .temp: the filter's
\* error makes it remove what it stored and pass the error on, the handler
\* never runs, and the error handling middleware of index.ts answers 500
UploadRejected(form) ==
    /\ started < MaxUploads
    /\ ~Accepted(form)
    /\ started' = started + 1
    /\ dirs' = IF form.photo /\ form.photoType \in allowedMimes
               THEN dirs \cup {TempDir} ELSE dirs
    /\ uuidCount' = IF form.photo /\ form.photoType \in allowedMimes
                    THEN uuidCount + 1 ELSE uuidCount
    /\ last' = Response("upload", 500, form, <<>>)
    /\ UNCHANGED <<files, now, heicConvert, inflight, deleted>>
    /\ Track

\* a check that looks at the photo only
MissingPhotoOnly(form) == ~form.photo

\* !files.photo || !files.video
Missing(form) == ~form.photo \/ ~form.video

\* multer stores the files that came; the handler rejects the request
UploadIncomplete(form) ==
    /\ started < MaxUploads
    /\ Accepted(form)
    /\ Missing(form)
    /\ started' = started + 1
    /\ dirs' = IF form.photo \/ form.video THEN dirs \cup {TempDir} ELSE dirs
    /\ files' = IF form.photo THEN Put(files, TempFile(uuidCount, "photo", form.photoExt) :> Media(form.photoSize))
                ELSE IF form.video THEN Put(files, TempFile(uuidCount, "video", form.videoExt) :> Media(form.videoSize))
                ELSE files
    /\ uuidCount' = IF form.photo \/ form.video THEN uuidCount + 1 ELSE uuidCount
    /\ last' = Response("upload", 400, form, <<>>)
    /\ UNCHANGED <<now, heicConvert, inflight, deleted>>
    /\ Track

\* a handler that saves the record right after the move of the photo
BegunWithRecord(form) ==
    LET galleryId == Default(form.gallery_id, "default")
        galleryName == Default(form.gallery_name, "Default Gallery")
        assetId == AssetId(form, uuidCount + 2)
        photoFile == PhotoName(assetId, form.photoExt)
        videoFile == VideoName(assetId, form.videoExt)
    IN  [form |-> form,
         galleryId |-> galleryId,
         galleryName |-> galleryName,
         assetId |-> assetId,
         photoFile |-> photoFile,
         photoSize |-> form.photoSize,
         videoTemp |-> TempFile(uuidCount + 1, "video", form.videoExt),
         uuidCount |-> IF Truthy(substring(form.id, PrefixLen)) THEN uuidCount + 2 ELSE uuidCount + 3,
         dirs |-> dirs \cup {TempDir, galleryId},
         files |-> Put(files, (<<galleryId, photoFile>> :> Media(form.photoSize)) @@
                              (TempFile(uuidCount + 1, "video", form.videoExt) :> Media(form.videoSize)) @@
                              (<<galleryId, MetadataName(assetId)>> :>
                                 UploadMetadata(form, MetadataId(form, uuidCount + 3), galleryId,
                                                galleryName, photoFile, form.photoSize, videoFile, now)))]

\* the upload as it stands after multer and the move of the photo into the
\* gallery directory
Begun(form) ==
    LET galleryId == Default(form.gallery_id, "default")
        assetId == AssetId(form, uuidCount + 2)
    IN  [form |-> form,
         galleryId |-> galleryId,
         galleryName |-> Default(form.gallery_name, "Default Gallery"),
         assetId |-> assetId,
         photoFile |-> PhotoName(assetId, form.photoExt),
         photoSize |-> form.photoSize,
         videoTemp |-> TempFile(uuidCount + 1, "video", form.videoExt),
         uuidCount |-> IF Truthy(substring(form.id, PrefixLen)) THEN uuidCount + 2 ELSE uuidCount + 3,
         dirs |-> dirs \cup {TempDir, galleryId},
         files |-> Put(files, (<<galleryId, PhotoName(assetId, form.photoExt)>> :> Media(form.photoSize)) @@
                              (TempFile(uuidCount + 1, "video", form.videoExt) :> Media(form.videoSize)))]

\* an upload whose photo is not HEIC runs from request to response without
\* reaching an await that yields to other requests
UploadPlain(form) ==
    /\ started < MaxUploads
    /\ Accepted(form)
    /\ ~Missing(form)
    /\ LET u == Begun(form) IN
        /\ ~IsHeic(u.photoFile)
        /\ dirs' = u.dirs
        /\ deleted' = deleted \ {u.galleryId}
        /\ Respond(u, FinishUpload(u.dirs, u.files, u.uuidCount, now, u, u.photoFile, u.photoSize))
    /\ started' = started + 1
    /\ UNCHANGED <<heicConvert, inflight>>
    /\ Track

\* an upload whose photo is HEIC is suspended in convertHeicToJpeg: at the
\* import of heic-convert the first time, at the conversion afterwards
UploadHeic(form) ==
    /\ started < MaxUploads
    /\ Accepted(form)
    /\ ~Missing(form)
    /\ inflight = Idle
    /\ LET u == Begun(form) IN
        /\ IsHeic(u.photoFile)
        /\ dirs' = u.dirs
        /\ files' = u.files
        /\ uuidCount' = u.uuidCount
        /\ deleted' = deleted \ {u.galleryId}
        /\ inflight' = [pc |-> IF heicConvert THEN "convert" ELSE "import",
                        form |-> u.form, galleryId |-> u.galleryId, galleryName |-> u.galleryName,
                        assetId |-> u.assetId, photoFile |-> u.photoFile, photoSize |-> u.photoSize,
                        videoTemp |-> u.videoTemp]
        /\ last' = Response("upload", 0, form, <<>>)
    /\ started' = started + 1
    /\ UNCHANGED <<now, heicConvert>>
    /\ Track

\* the import resolves (ok) and fs.readFileSync(heicPath) runs, or the import
\* rejects: when it rejects or the file is gone, convertHeicToJpeg throws, the
\* handler keeps the original name and goes on
UploadImported(ok) ==
    /\ inflight.pc = "import"
    /\ heicConvert' = ok
    /\ IF ok /\ <<inflight.galleryId, inflight.photoFile>> \in DOMAIN files
       THEN /\ inflight' = [inflight EXCEPT !.pc = "convert"]
            /\ last' = Response("upload", 0, inflight.form, <<>>)
            /\ conversion' = "none"
            /\ UNCHANGED <<files, uuidCount, now>>
       ELSE /\ inflight' = Idle
            /\ conversion' = "threw"
            /\ Respond(inflight, FinishUpload(dirs, files, uuidCount, now, inflight,
                                              inflight.photoFile, inflight.photoSize))
    /\ UNCHANGED <<dirs, started, deleted>>
    /\ Changes

\* a handler that takes the JPEG's name whatever convertHeicToJpeg does
ConvertedNamedFirst(u, ok) ==
    LET heicPath == <<u.galleryId, u.photoFile>>
        jpegFile == ReplaceHeic(u.photoFile)
        written == Put(files, <<u.galleryId, jpegFile>> :> Media(ConvertedSize(u.photoSize)))
    IN  IF ~ok \/ u.galleryId \notin dirs
        THEN [files |-> files, photoFile |-> jpegFile, photoSize |-> u.photoSize,
              ended |-> "threw"]
        ELSE IF heicPath \notin DOMAIN files
        THEN [files |-> written, photoFile |-> jpegFile, photoSize |-> u.photoSize,
              ended |-> "threw"]
        ELSE [files |-> Remove(written, {heicPath}), photoFile |-> jpegFile,
              photoSize |-> ConvertedSize(u.photoSize), ended |-> "returned"]

\* the files and the photo name and size after convertHeicToJpeg resumed with
\* the conversion's outcome: writeFileSync throws when the directory is gone,
\* unlinkSync throws when the HEIC file is gone, after the JPEG was written
Converted(u, ok) ==
    LET heicPath == <<u.galleryId, u.photoFile>>
        jpegFile == ReplaceHeic(u.photoFile)
        written == Put(files, <<u.galleryId, jpegFile>> :> Media(ConvertedSize(u.photoSize)))
    IN  IF ~ok \/ u.galleryId \notin dirs
        THEN [files |-> files, photoFile |-> u.photoFile, photoSize |-> u.photoSize,
              ended |-> "threw"]
        ELSE IF heicPath \notin DOMAIN files
        THEN [files |-> written, photoFile |-> u.photoFile, photoSize |-> u.photoSize,
              ended |-> "threw"]
        ELSE [files |-> Remove(written, {heicPath}), photoFile |-> jpegFile,
              photoSize |-> ConvertedSize(u.photoSize), ended |-> "returned"]

\* the conversion resolves (ok) or rejects, and the handler runs to its response
UploadConverted(ok) ==
    /\ inflight.pc = "convert"
    /\ inflight' = Idle
    /\ LET c == Converted(inflight, ok) IN
          /\ conversion' = c.ended
          /\ Respond(inflight, FinishUpload(dirs, c.files, uuidCount, now, inflight,
                                            c.photoFile, c.photoSize))
    /\ UNCHANGED <<dirs, heicConvert, started, deleted>>
    /\ Changes

-----------------------------------------------------------------------------
(* Specification *)

Next ==
    \/ ListGalleries
    \/ \E r \in ListRequests : ListPhotos(r[1], r[2])
    \/ \E id \in QueryIds : GetPhoto(id)
    \/ \E r \in DeletePhotoRequests : DeletePhoto(r[1], r[2])
    \/ \E r \in PageRequests : GalleryPage(r[1], r[2])
    \/ \E r \in DeleteGalleryRequests : DeleteGallery(r[1], r[2])
    \/ \E form \in UploadForms : UploadRejected(form)
    \/ \E form \in UploadForms : UploadIncomplete(form)
    \/ \E form \in UploadForms : UploadPlain(form)
    \/ \E form \in UploadForms : UploadHeic(form)
    \/ \E ok \in BOOLEAN : UploadImported(ok)
    \/ \E ok \in BOOLEAN : UploadConverted(ok)


Spec == Init /\ [][Next]_vars

-----------------------------------------------------------------------------
(* Properties *)

\* equality of two strings up to letter case, by lower-casing each character
SameIgnoringCase(a, b) ==
    Len(a) = Len(b) /\ \A i \in 1..Len(a) : LowerChar(a[i]) = LowerChar(b[i])

\* s equals p or begins with it
IsPrefixOf(p, s) == \E k \in 0..Len(s) : [i \in 1..k |-> s[i]] = p

IsDelete == last.op \in {"deletePhoto", "deleteGallery"}

\* the delete request found its target: the handler read the target's record
TargetFound == IsDelete /\ last.status \in {200, 403}

\* C1: a delete of an asset or of a gallery succeeds only if the password sent
\* equals, ignoring letter case, the galleryDeletePassword of the record the
\* handler read for the target; when the target is found and the password
\* sent does not match, the response is 403 and no file or directory changed.
C1_DeleteNeedsMatchingPassword ==
    /\ (IsDelete /\ last.status = 200) =>
          /\ Truthy(last.body.metadata.galleryDeletePassword)
          /\ SameIgnoringCase(last.req.password, last.body.metadata.galleryDeletePassword)
    /\ (TargetFound
         /\ ~SameIgnoringCase(last.req.password, last.body.metadata.galleryDeletePassword)) =>
          (last.status = 403 /\ ~changed)

\* a delete succeeded with a password written in another letter case than the
\* stored one
C1_Witness ==
    /\ IsDelete /\ last.status = 200 /\ changed
    /\ last.req.password # last.body.metadata.galleryDeletePassword

\* a delete was refused for a password that does not match the stored one
C1_WitnessRefused ==
    /\ IsDelete /\ last.status = 403
    /\ Truthy(last.body.metadata.galleryDeletePassword)

\* the path of the record file an upload response names
UploadedRecordPath == <<last.body.galleryId, last.body.metadata[3]>>

\* C2: an upload that sends gallery_delete_password and/or
\* gallery_view_password stores them in the record it writes, and a delete of
\* that asset with the same delete password, in any letter case, then succeeds.
C2_UploadPersistsPasswords ==
    (last.op = "upload" /\ last.status = 201
      /\ (Truthy(last.req.gallery_delete_password) \/ Truthy(last.req.gallery_view_password))) =>
        /\ UploadedRecordPath \in DOMAIN files
        /\ files[UploadedRecordPath].galleryDeletePassword = last.req.gallery_delete_password
        /\ files[UploadedRecordPath].galleryViewPassword = last.req.gallery_view_password
        /\ Truthy(last.req.gallery_delete_password) =>
              DeletePhotoStatus(UploadedRecordPath, toLowerCase(last.req.gallery_delete_password)) = 200

\* C3: all records stored in one gallery directory carry the same galleryName,
\* galleryDeletePassword and galleryViewPassword.
C3_Denormalized ==
    \A d \in galleryDirs : \A r1, r2 \in Records(d) :
        /\ r1.galleryName = r2.galleryName
        /\ r1.galleryDeletePassword = r2.galleryDeletePassword
        /\ r1.galleryViewPassword = r2.galleryViewPassword

\* gallery g holds records and all of them carry the view password v
ViewProtected(g, v) ==
    /\ g \in galleryDirs
    /\ Records(g) # {}
    /\ Truthy(v)
    /\ \A r \in Records(g) : r.galleryViewPassword = v

\* the records of gallery g with the derived URLs
ExpectedPhotos(g) ==
    {[metadata |-> r,
      photoUrl |-> <<"files", g, r.photoFile>>,
      videoUrl |-> <<"files", g, r.videoFile>>] : r \in Records(g)}

\* C4: a listing filtered on a gallery whose records carry view password v
\* answers 401 when no password is sent, 403 when the password sent differs
\* from v other than by letter case, and the gallery's records otherwise.
C4_ViewPassword ==
    (last.op = "photos" /\ last.req.gallery # "") =>
        \A v \in {r.galleryViewPassword : r \in Records(last.req.gallery)} :
            ViewProtected(last.req.gallery, v) =>
                IF ~Truthy(last.req.p) THEN last.status = 401
                ELSE IF ~SameIgnoringCase(last.req.p, v) THEN last.status = 403
                ELSE /\ last.status = 200
                     /\ {last.body.photos[i] : i \in 1..Len(last.body.photos)}
                          = ExpectedPhotos(last.req.gallery)
                     /\ last.body.count = Cardinality(Records(last.req.gallery))

\* a protected gallery was listed with its password in another letter case
C4_Witness ==
    /\ last.op = "photos" /\ last.status = 200 /\ last.req.gallery = "trip"
    /\ ViewProtected("trip", ViewPw)
    /\ last.req.p # ViewPw
    /\ last.body.count >= 1

\* the asset delete request aimed at a record without a delete password: the
\* record the handler matched, or, when the handler returned before the scan,
\* every record the scan would have matched
TargetHasNoDeletePassword ==
    /\ last.op = "deletePhoto"
    /\ IF last.status \in {200, 403}
       THEN ~Truthy(last.body.metadata.galleryDeletePassword)
       ELSE /\ MatchingFiles(last.req.id) # {}
            /\ \A p \in MatchingFiles(last.req.id) : ~Truthy(files[p].galleryDeletePassword)

\* C5 as stated: every delete request on an asset whose record has no delete
\* password, whatever its body, is answered 403 and changes no file.
C5_AlwaysForbidden ==
    TargetHasNoDeletePassword => (last.status = 403 /\ ~changed)

\* C5 as amended: such a request never succeeds and changes no file; it is
\* answered 403 when its body carries a password and 400 when it carries none.
C5_NeverDeleted ==
    TargetHasNoDeletePassword =>
        /\ ~changed
        /\ last.status = IF Truthy(last.req.password) THEN 403 ELSE 400

\* a delete request with a password was refused on a record without delete password
C5_Witness ==
    /\ TargetHasNoDeletePassword
    /\ last.status = 403
    /\ Truthy(last.req.password)
    /\ last.body.path \in DOMAIN files

\* C6 as stated: the repeat of an asset delete that succeeded is answered 404.
C6_SecondDeleteNotFound == again # "no" => last.status = 404

\* C6 as amended: the repeat of an asset delete that succeeded is answered 404
\* when no other stored record's id equals or starts with the id sent.
C6_SecondDeleteNotFoundAlone == again = "alone" => last.status = 404

\* an asset delete succeeded and its repeat was answered 404
C6_Witness == again = "alone" /\ last.op = "deletePhoto" /\ last.status = 404

\* C7: from a successful delete of gallery g until the next upload into g, the
\* directory of g does not exist, no gallery listing has an entry for g, and
\* the asset listing filtered on g is the empty list.
C7_DeletedGalleryGone ==
    \A g \in deleted :
        /\ g \notin dirs
        /\ \A listing \in GalleryListings : \A i \in 1..Len(listing) : listing[i].id # g
        /\ \A p \in ViewPasswords : ListPhotosResponses(g, p) = {<<200, <<>>>>}
        /\ (last.op = "galleries") =>
              \A i \in 1..Len(last.body.galleries) : last.body.galleries[i].id # g
        /\ (last.op = "photos" /\ last.req.gallery = g) =>
              (last.status = 200 /\ last.body.photos = <<>>)

\* a deleted gallery was listed afterwards
C7_Witness ==
    /\ last.op = "photos" /\ last.req.gallery \in deleted
    /\ last.body.count = 0

\* C8: get-asset with string s returns a stored record whose id equals s or
\* starts with s whenever a gallery directory holds such a record, and 404
\* when none does.
C8_GetByPrefix ==
    last.op = "photo" =>
        LET stored == UNION {Records(d) : d \in galleryDirs}
            hits == {r \in stored : IsPrefixOf(last.req.id, r.id)}
        IN  IF hits = {} THEN last.status = 404
            ELSE /\ last.status = 200
                 /\ last.body.metadata \in hits

\* get-asset returned a record whose id is longer than the string sent
C8_Witness ==
    /\ last.op = "photo" /\ last.status = 200
    /\ last.body.metadata.id # last.req.id

NoOptionalFields(form) ==
    /\ form.id = <<>> /\ form.gallery_id = "" /\ form.gallery_name = ""
    /\ form.gallery_delete_password = <<>> /\ form.gallery_view_password = <<>>

\* C9: an upload with both files and no optional field stores its record and
\* its two media files in gallery "default" (galleryName "Default Gallery")
\* under a file name prefix of 8 characters, and get-asset with the id the
\* upload returned returns the stored record with the derived URLs.
C9_DefaultUpload ==
    (last.op = "upload" /\ last.status = 201 /\ NoOptionalFields(last.req)) =>
        /\ last.body.galleryId = "default"
        /\ UploadedRecordPath \in DOMAIN files
        /\ LET r == files[UploadedRecordPath]
               prefix == UploadedRecordPath[2].stem
           IN  /\ Len(prefix) = PrefixLen
               /\ r.galleryId = "default" /\ r.galleryName = "Default Gallery"
               /\ r.id = last.body.id
               /\ r.photoFile.stem = prefix /\ r.videoFile.stem = prefix
               /\ {<<"default", r.photoFile>>, <<"default", r.videoFile>>} \subseteq DOMAIN files
               /\ GetPhotoResponses(last.body.id)
                    = {<<200, [metadata |-> r,
                               photoUrl |-> <<"files", "default", r.photoFile>>,
                               videoUrl |-> <<"files", "default", r.videoFile>>]>>}

\* an upload without optional fields was answered 201
C9_Witness ==
    last.op = "upload" /\ last.status = 201 /\ NoOptionalFields(last.req)

\* C10: for every record, the name of its record file and the names in its
\* photoFile and videoFile begin with the first 8 characters of its id.
C10_NamesBeginWithId ==
    \A d \in galleryDirs : \A p \in MetadataFiles(d) :
        LET prefix == substring(files[p].id, PrefixLen)
        IN  /\ IsPrefixOf(prefix, FullName(p[2]))
            /\ IsPrefixOf(prefix, FullName(files[p].photoFile))
            /\ IsPrefixOf(prefix, FullName(files[p].videoFile))

\* C11: when two uploads in a row into the same gallery, with different ids,
\* both end with 201, their photo names differ, their video names differ,
\* their record files differ, and after the second both records are stored
\* with their media files.
C11_DistinctIdsDistinctFiles ==
    [][(/\ last.op = "upload" /\ last.status = 201
        /\ last'.op = "upload" /\ last'.status = 201
        /\ last.body.galleryId = last'.body.galleryId
        /\ last.body.id # last'.body.id) =>
          /\ last.body.photo # last'.body.photo
          /\ last.body.video # last'.body.video
          /\ last.body.metadata # last'.body.metadata
          /\ \A b \in {last.body, last'.body} :
                /\ <<b.galleryId, b.metadata[3]>> \in DOMAIN files'
                /\ files'[<<b.galleryId, b.metadata[3]>>].id = b.id
                /\ <<b.galleryId, b.photo[3]>> \in DOMAIN files'
                /\ <<b.galleryId, b.video[3]>> \in DOMAIN files']_vars

\* the record files of the gallery directories, with their contents, in fs
RecordFilesOf(fs) ==
    [p \in {q \in DOMAIN fs : q[1] # TempDir /\ IsMetadataFile(q[2])} |-> fs[p]]

\* C12: an upload request without the photo or without the video is answered
\* 400, and no step of an upload other than the one that answers 201 writes,
\* replaces or removes a record file.
C12_NoRecordWithout201 ==
    [][last'.op = "upload" =>
          /\ (~last'.req.photo \/ ~last'.req.video) => last'.status = 400
          /\ last'.status # 201 => RecordFilesOf(files') = RecordFilesOf(files)]_vars

\* an upload that had stored its photo was answered 500
C12_Witness ==
    /\ last.op = "upload" /\ last.status = 500
    /\ last.req.photo /\ last.req.video
    /\ {last.req.photoType, last.req.videoType} \subseteq allowedMimes

\* an upload without one of its files was answered 400
C12_WitnessIncomplete ==
    /\ last.op = "upload" /\ last.status = 400
    /\ ~(last.req.photo /\ last.req.video)

\* C13: an upload with a file whose content type is not in the allow-list is
\* answered 415 and writes no record file.
C13_UnsupportedMediaType ==
    [][(last'.op = "upload"
        /\ \E t \in {last'.req.photoType, last'.req.videoType} : t \notin allowedMimes) =>
          /\ last'.status = 415
          /\ RecordFilesOf(files') = RecordFilesOf(files)]_vars

\* the photo files of directory d that belong to the asset with file name
\* prefix stem and have a .heic extension in any letter case
HeicFilesOf(d, stem) ==
    {p \in Entries(d) : p[2].kind = "photo" /\ p[2].stem = stem /\ IsHeic(p[2])}

\* C14: when an upload whose photo name ends in .heic, in any letter case, is
\* answered 201 after convertHeicToJpeg returned, the gallery directory holds
\* the photo under the name with .jpg in place of .heic, holds no .heic photo
\* of that asset, and the record names the .jpg file and carries its size.
C14_HeicStoredAsJpeg ==
    (last.op = "upload" /\ last.status = 201 /\ conversion = "returned") =>
        LET r == files[UploadedRecordPath]
            stem == UploadedRecordPath[2].stem
            ext == last.req.photoExt
            jpg == [stem |-> stem, kind |-> "photo",
                    ext |-> SubSeq(ext, 1, Len(ext) - Len(DotHeic)) \o DotJpg]
        IN  /\ SameIgnoringCase(SubSeq(ext, Len(ext) - Len(DotHeic) + 1, Len(ext)), DotHeic)
            /\ <<last.body.galleryId, jpg>> \in DOMAIN files
            /\ HeicFilesOf(last.body.galleryId, stem) = {}
            /\ r.photoFile = jpg
            /\ r.photoSize = files[<<last.body.galleryId, jpg>>].size
            /\ r.photoSize = ConvertedSize(last.req.photoSize)

\* an upload with an upper-case .HEIC photo was converted and answered 201
C14_Witness ==
    /\ last.op = "upload" /\ last.status = 201 /\ conversion = "returned"
    /\ last.req.photoExt = DotHeicUpper

\* C15 as stated: when convertHeicToJpeg throws during an upload, the upload
\* is answered 201, the HEIC file under its original name is in the gallery
\* directory, and the record's photoFile names it.
C15_FailedConversionKeepsHeic ==
    (last.op = "upload" /\ conversion = "threw") =>
        /\ last.status = 201
        /\ LET r == files[UploadedRecordPath]
               heic == PhotoName(UploadedRecordPath[2].stem, last.req.photoExt)
           IN  /\ r.photoFile = heic
               /\ <<last.body.galleryId, heic>> \in DOMAIN files

\* C15 as amended: the same, for a conversion that throws while the gallery
\* directory and the HEIC file moved into it are still in place; the HEIC file
\* is left as it was.
C15_FailedConversionKeepsHeicInPlace ==
    [][(/\ conversion' = "threw"
        /\ inflight.galleryId \in dirs
        /\ <<inflight.galleryId, inflight.photoFile>> \in DOMAIN files) =>
          LET heicPath == <<inflight.galleryId, inflight.photoFile>>
              recordPath == <<inflight.galleryId, MetadataName(inflight.assetId)>>
          IN  /\ last'.op = "upload" /\ last'.status = 201
              /\ heicPath \in DOMAIN files' /\ files'[heicPath] = files[heicPath]
              /\ recordPath \in DOMAIN files'
              /\ files'[recordPath].photoFile = inflight.photoFile
              /\ files'[recordPath].photoSize = files[heicPath].size]_vars

\* an upload was answered 201 after its conversion threw, with the HEIC file kept
C15_Witness ==
    /\ last.op = "upload" /\ last.status = 201 /\ conversion = "threw"
    /\ IsHeic(files[UploadedRecordPath].photoFile)
    /\ <<last.body.galleryId, files[UploadedRecordPath].photoFile>> \in DOMAIN files

\* C16: an asset delete answered 200 removes the record file it matched and
\* the photo and video files that record names, where they exist, and leaves
\* every other file and every directory as it was, also when the gallery
\* directory is left without files.
C16_DeleteRemovesOneAsset ==
    [][(last'.op = "deletePhoto" /\ last'.status = 200) =>
          LET p == last'.body.path
              r == last'.body.metadata
              asset == {p, <<p[1], r.photoFile>>, <<p[1], r.videoFile>>}
          IN  /\ p \in DOMAIN files /\ files[p] = r
              /\ DOMAIN files' = DOMAIN files \ asset
              /\ \A q \in DOMAIN files' : files'[q] = files[q]
              /\ dirs' = dirs]_vars

\* an asset delete removed the last files of a gallery directory, which stays
C16_Witness ==
    /\ last.op = "deletePhoto" /\ last.status = 200
    /\ last.body.path[1] \in dirs
    /\ Entries(last.body.path[1]) = {}

\* the gallery directories that hold no record file
EmptyGalleryDirs == {d \in galleryDirs : MetadataFiles(d) = {}}

\* C17: a gallery directory without records reads like a gallery that does
\* not exist: no gallery listing has an entry for it, the asset listing
\* filtered on it is the empty list whatever password is sent, and neither the
\* unfiltered asset listing nor get-asset returns anything from it.
C17_EmptyGalleryInvisible ==
    \A d \in EmptyGalleryDirs :
        /\ \A listing \in GalleryListings : \A i \in 1..Len(listing) : listing[i].id # d
        /\ \A p \in ViewPasswords : ListPhotosResponses(d, p) = {<<200, <<>>>>}
        /\ \A photos \in PhotoListings("") : \A i \in 1..Len(photos) : photos[i].photoUrl[2] # d
        /\ \A id \in QueryIds : \A r \in GetPhotoResponses(id) :
              r[1] = 200 => r[2].photoUrl[2] # d

\* C18: a gallery delete that carries a password is answered 404 and changes
\* nothing when the gallery directory does not exist or holds no record file;
\* when the directory holds records that all carry the delete password sent,
\* up to letter case, it is answered 200; and when it is answered 200, no file
\* of the directory and no such directory is left, and the other directories
\* and their files are as before.
C18_DeleteGallery ==
    [][(last'.op = "deleteGallery" /\ Truthy(last'.req.password)) =>
          LET g == last'.req.galleryId
              pw == last'.req.password
          IN  /\ (g \notin dirs \/ MetadataFiles(g) = {}) =>
                    (last'.status = 404 /\ dirs' = dirs /\ files' = files)
              /\ (/\ g \in dirs /\ MetadataFiles(g) # {}
                  /\ \A r \in Records(g) :
                        /\ Truthy(r.galleryDeletePassword)
                        /\ SameIgnoringCase(pw, r.galleryDeletePassword)) =>
                    last'.status = 200
              /\ last'.status = 200 =>
                    /\ g \in dirs /\ dirs' = dirs \ {g}
                    /\ DOMAIN files' = {p \in DOMAIN files : p[1] # g}
                    /\ \A p \in DOMAIN files' : files'[p] = files[p]]_vars

\* a gallery delete found the directory without records and answered 404
C18_Witness ==
    /\ last.op = "deleteGallery" /\ last.status = 404
    /\ last.req.galleryId \in dirs

\* a gallery delete removed a directory that held files
C18_WitnessDeleted ==
    /\ last.op = "deleteGallery" /\ last.status = 200
    /\ last.req.galleryId \notin dirs

\* the files of directory g, in fs, named after file name prefix stem
FilesOfPrefix(fs, g, stem) == {q \in DOMAIN fs : q[1] = g /\ q[2].stem = stem}

\* C19: an upload answered 201 leaves the gallery directory in place with,
\* under the asset's file name prefix, exactly one photo, one video and one
\* record file, the photo and video being the ones the record names; and no
\* step of an upload changes or removes the record file, the photo or the
\* video of a stored asset with another id.
C19_UploadWritesOneAsset ==
    [][last'.op = "upload" =>
          /\ \A p \in DOMAIN RecordFilesOf(files) :
                files[p].id # last'.req.id =>
                    \A q \in {p, <<p[1], files[p].photoFile>>, <<p[1], files[p].videoFile>>}
                              \cap DOMAIN files :
                        q \in DOMAIN files' /\ files'[q] = files[q]
          /\ last'.status = 201 =>
                LET g == last'.body.galleryId
                    recordFile == last'.body.metadata[3]
                    r == files'[<<g, recordFile>>]
                IN  /\ g \in dirs'
                    /\ FilesOfPrefix(files', g, recordFile.stem)
                          = {<<g, recordFile>>, <<g, r.photoFile>>, <<g, r.videoFile>>}
                    /\ r.photoFile.kind = "photo" /\ r.videoFile.kind = "video"]_vars

\* the record files of directory d, told by the kind of their name
RecordFilesIn(d) == {p \in DOMAIN files : p[1] = d /\ p[2].kind = "metadata"}

\* listing has one entry per directory of the root other than .temp, each with
\* the number of record files of its directory and, when there are any, the
\* latest of their uploadDates, the entries with later lastUpdated first
GalleryListingOk(listing) ==
    /\ Len(listing) = Cardinality(dirs \ {".temp"})
    /\ {listing[i].id : i \in 1..Len(listing)} = dirs \ {".temp"}
    /\ \A i \in 1..Len(listing) :
          LET dates == {files[p].uploadDate : p \in RecordFilesIn(listing[i].id)}
          IN  /\ listing[i].photoCount = Cardinality(RecordFilesIn(listing[i].id))
              /\ dates # {} =>
                    /\ listing[i].lastUpdated \in dates
                    /\ \A x \in dates : x <= listing[i].lastUpdated
    /\ \A i, j \in 1..Len(listing) :
          i < j => listing[i].lastUpdated >= listing[j].lastUpdated

\* C20: every body the gallery listing can answer with has one entry per
\* subdirectory of the root other than .temp, with photoCount the number of
\* records of that directory and lastUpdated the latest uploadDate among them,
\* ordered by lastUpdated descending, and count is the number of entries.
C20_GalleryListing ==
    /\ \A listing \in GalleryListings : GalleryListingOk(listing)
    /\ last.op = "galleries" =>
          /\ last.status = 200
          /\ GalleryListingOk(last.body.galleries)
          /\ last.body.count = Len(last.body.galleries)

\* a listing of two galleries, one of them with two records
C20_Witness ==
    /\ last.op = "galleries"
    /\ last.body.count = 2
    /\ last.body.galleries[1].lastUpdated > last.body.galleries[2].lastUpdated
    /\ \E i \in 1..2 : last.body.galleries[i].photoCount = 2

\* the directories a listing with ?gallery= value g covers
ListedDirs(g) == IF g = "" THEN dirs \ {".temp"} ELSE {g} \cap (dirs \ {".temp"})

\* photos holds, once each, the record of every record file of the directories
\* the listing covers, with the two URLs built from the directory the file is
\* in, the records with later uploadDate first
PhotoListingOk(g, photos) ==
    LET paths == UNION {RecordFilesIn(d) : d \in ListedDirs(g)}
    IN  /\ Len(photos) = Cardinality(paths)
        /\ {photos[i] : i \in 1..Len(photos)}
             = {[metadata |-> files[p],
                 photoUrl |-> <<"files", p[1], files[p].photoFile>>,
                 videoUrl |-> <<"files", p[1], files[p].videoFile>>] : p \in paths}
        /\ \A i, j \in 1..Len(photos) :
             i < j => photos[i].metadata.uploadDate >= photos[j].metadata.uploadDate

\* C21: an asset listing answered 200 returns the records of every record
\* file of the selected gallery directory, or of all gallery directories other
\* than .temp when no gallery is given, each with photoUrl and videoUrl built
\* from its directory, ordered by uploadDate descending, count being their
\* number.
C21_AssetListing ==
    /\ \A req \in ListRequests : \A r \in ListPhotosResponses(req[1], req[2]) :
          r[1] = 200 => PhotoListingOk(req[1], r[2])
    /\ (last.op = "photos" /\ last.status = 200) =>
          /\ PhotoListingOk(last.req.gallery, last.body.photos)
          /\ last.body.count = Len(last.body.photos)

\* a gallery was listed on its own while another gallery held records too
C21_Witness ==
    /\ last.op = "photos" /\ last.status = 200
    /\ last.req.gallery # ""
    /\ last.body.count >= 1
    /\ \E d \in dirs \ {".temp", last.req.gallery} : RecordFilesIn(d) # {}

\* all galleries were listed together
C21_WitnessAll ==
    /\ last.op = "photos" /\ last.status = 200
    /\ last.req.gallery = ""
    /\ \E i, j \in 1..Len(last.body.photos) :
          last.body.photos[i].photoUrl[2] # last.body.photos[j].photoUrl[2]

\* the record files of the gallery directories that the step wrote: the ones
\* that are new or have new contents
RecordsWritten ==
    {p \in DOMAIN RecordFilesOf(files') : p \notin DOMAIN files \/ files'[p] # files[p]}

C23_ConcurrentDeletes ==
    (last.op = "deletePhoto" /\ again # "no") =>
        (last.status = 404 /\ ~changed)

\* C23 as amended: the same, when no other stored record's id equals or
\* starts with the id sent.
C23_ConcurrentDeletesAlone ==
    (last.op = "deletePhoto" /\ again = "alone") =>
        (last.status = 404 /\ ~changed)

\* the second of two such deletes was answered 404 while other assets were stored
C23_Witness ==
    /\ last.op = "deletePhoto" /\ again = "alone" /\ last.status = 404
    /\ \E d \in galleryDirs : MetadataFiles(d) # {}

photoMimes == {"image/heic", "image/heif", "image/jpeg", "image/png"}

videoMimes == {"video/quicktime", "video/mp4"}

\* C24: an upload gets past the content type filter, that is, is answered by
\* the handler (201 or 400) or suspended in it, only if the file in its photo
\* field, when there is one, has a photo type and the file in its video
\* field, when there is one, has a video type.
C24_AllowListPerField ==
    (last.op = "upload" /\ last.status \in {0, 201, 400}) =>
        /\ last.req.photo => last.req.photoType \in photoMimes
        /\ last.req.video => last.req.videoType \in videoMimes

\* whether the record file at path p of the files fs names a photo and a video
\* that are in its directory
MediaStored(fs, p) ==
    /\ <<p[1], fs[p].photoFile>> \in DOMAIN fs
    /\ <<p[1], fs[p].videoFile>> \in DOMAIN fs

Kept(p) ==
    \A q \in {p, <<p[1], files[p].photoFile>>, <<p[1], files[p].videoFile>>} :
        q \in DOMAIN files' /\ files'[q] = files[q]

\* C26: a stored asset's record and media files are removed or replaced only
\* by a delete request that sent a password matching the asset's stored delete
\* password; no upload overwrites them
C26_StoredAssetsStay ==
    [][\A p \in DOMAIN RecordFilesOf(files) :
          MediaStored(files, p) =>
             \/ Kept(p)
             \/ /\ last'.op \in {"deletePhoto", "deleteGallery"}
                /\ last'.status = 200
                /\ Truthy(files[p].galleryDeletePassword)
                /\ ~PasswordDiffers(last'.req.password, files[p].galleryDeletePassword)]_vars

\* C27: the asset listing, with or without a gallery filter, returns no record
\* that carries a view password to a caller that did not send a password
\* equal to it ignoring letter case
C27_ProtectedRecordsNotListed ==
    (last.op = "photos" /\ last.status = 200) =>
        \A i \in 1..Len(last.body.photos) :
            LET stored == last.body.photos[i].metadata.galleryViewPassword
            IN  Truthy(stored) =>
                   Truthy(last.req.p) /\ ~PasswordDiffers(last.req.p, stored)

\* the step is a get-asset or a delete-asset whose scan took a record
TookRecord ==
    \/ last'.op = "photo" /\ last'.status = 200
    \/ last'.op = "deletePhoto" /\ last'.status \in {200, 403}

\* the records stored in the gallery directories before the step
StoredBefore == UNION {Records(d) : d \in galleryDirs}

\* C28: get-asset and delete-asset with string S take a record whose id equals
\* S whenever some stored record has id S, never one whose id merely starts
\* with S
C28_ExactIdWins ==
    [][TookRecord =>
          ((\E r \in StoredBefore : r.id = last'.req.id) =>
              last'.body.metadata.id = last'.req.id)]_vars

\* C28, amended: the record taken is a stored record whose id equals S or
\* starts with S, so it is the record with id S when no other stored id
\* starts with S
C28_TakesAMatch ==
    [][TookRecord =>
          /\ last'.body.metadata \in StoredBefore
          /\ IsPrefixOf(last'.req.id, last'.body.metadata.id)
          /\ (\A r \in StoredBefore : IsPrefixOf(last'.req.id, r.id) => r.id = last'.req.id)
                => last'.body.metadata.id = last'.req.id]_vars

\* delete-asset took the record whose id is the string sent while another
\* stored record's id starts with that string
C28_Witness ==
    /\ last.op = "deletePhoto" /\ last.status = 200
    /\ last.body.metadata.id = last.req.id
    /\ \E r \in UNION {Records(d) : d \in galleryDirs} :
          r.id # last.req.id /\ IsPrefixOf(last.req.id, r.id)

\* whether the JSON listing filtered on gallery g may show the assets to a
\* caller that sent password pw, and whether it may refuse
ListingDecisions(g, pw) ==
    {IF r[1] = 200 THEN "show" ELSE "refuse" : r \in ListPhotosResponses(g, pw)}

\* the same for the HTML page of gallery g
PageDecisions(g, pw) ==
    {IF body.page = "gallery" THEN "show" ELSE "refuse"
       : body \in GalleryPageResponses(g, pw)}

\* C29: for every store state, gallery id and password sent, the HTML gallery
\* page and the JSON listing filtered on that gallery make the same access
\* decision: both show the gallery's assets or both refuse
C29_SameAccessDecision ==
    \A g \in GalleryParams \ {""} : \A pw \in ViewPasswords :
        PageDecisions(g, pw) = ListingDecisions(g, pw)

\* the files in the reserved .temp directory
TempFiles == {p \in DOMAIN files : p[1] = TempDir}

\* C30: once an upload request has been answered, with 201 or with an error,
\* the .temp directory holds no file that the request created
C30_TempEmptiedOnAnswer ==
    [][(last'.op = "upload" /\ last'.status # 0) =>
          TempFiles' \subseteq TempFiles]_vars

=============================================================================
